---------------------------- MODULE Spec2Model ----------------------------
(***************************************************************************)
(* Keyset (cursor) pagination: paginator/paginator.go (Paginator) and      *)
(* paginator/paginator_v1.go (SqlPaginator, which embeds Paginator and     *)
(* therefore shares its fields cursor, rules, limit, order).               *)
(*                                                                         *)
(* Strings built with fmt.Sprintf are kept as the sequences of the parts   *)
(* they are built from, so that two texts are equal exactly when their     *)
(* sequences are.  A nil pointer or nil interface{} is NULL or an unset    *)
(* pointer record.  Custom codec types (Rule.CustomType) are not modelled. *)
(***************************************************************************)
EXTENDS Integers, Sequences, FiniteSets, TLC

VARIABLES
    cursor,      \* Paginator.cursor: the incoming After / Before pointers
    rules,       \* Paginator.rules
    limit,       \* Paginator.limit
    order,       \* Paginator.order
    table,       \* the rows held by the query engine (never written here)
    firstRules,  \* history: the rules as the first successful setup left them
    last         \* what the most recent operation returned and did

vars == <<cursor, rules, limit, order, table, firstRules, last>>

---------------------------------------------------------------------------
(* Bounds of the model.                                                    *)

MaxLimit == 2

MaxRows == 3

MaxReprLen == 5

---------------------------------------------------------------------------
(* Values.                                                                 *)

ASC == "ASC"

DESC == "DESC"

\* A nil interface{} value (what isNil reports), below every key value.
NULL == -1

\* The fields of the destination record type that can serve as keys.
Fields == {"a", "b"}

\* The key values a row can hold.
Vals == {1, 2}

Rows == [Fields -> Vals]

Tables == {t \in SUBSET Rows : Cardinality(t) <= MaxRows}

\* A *string that is nil, and one that points to a token.
NilPtr == [set |-> FALSE, tok |-> [valid |-> FALSE, vals |-> <<>>]]

Ptr(tok) == [set |-> TRUE, tok |-> tok]

\* The zero Cursor{}.
NoCursor == [After |-> NilPtr, Before |-> NilPtr]

\* Order.flip: the opposite direction (anything that is not ASC flips to ASC).
Flip(o) == IF o = ASC THEN DESC ELSE ASC

\* Order.validate.
OrderValidate(o) == IF o \in {ASC, DESC} THEN "nil" ELSE "ErrInvalidOrder"

\* Rule.validate: the structural check of one rule.
RuleValidate(r) ==
    IF r.Key \notin Fields THEN "ErrInvalidRule"
    ELSE IF r.Order # "" THEN OrderValidate(r.Order)
    ELSE "nil"

\* schema.LookUpField(key).DBName: the column a field is stored in.
DBName(key) == IF key = "a" THEN "t.col_a" ELSE IF key = "b" THEN "t.col_b" ELSE "t."

\* The field a column expression reads (the first part of an SQLRepr).
FieldOf(col) == IF col = "t.col_a" THEN "a" ELSE "b"

RECURSIVE SeqSum(_)
SeqSum(s) == IF s = <<>> THEN 0 ELSE Head(s) + SeqSum(Tail(s))

RECURSIVE Flatten(_)
Flatten(ss) == IF ss = <<>> THEN <<>> ELSE Head(ss) \o Flatten(Tail(ss))

\* reverse(elems).
Reverse(s) == [i \in 1..Len(s) |-> s[Len(s) + 1 - i]]

---------------------------------------------------------------------------
(* The cursor codec (package cursor) as the paginator uses it.             *)

\* A token: the key values of one row, in rule order.  An undecodable
\* string is a token that is not valid.
Token(vals) == [valid |-> TRUE, vals |-> vals]

BadToken == [valid |-> FALSE, vals |-> <<>>]

\* Paginator.getEncoderFields / getDecoderFields: one field per rule.
getEncoderFields(rs) == [i \in 1..Len(rs) |-> rs[i].Key]

getDecoderFields(rs) == [i \in 1..Len(rs) |-> rs[i].Key]

\* Encoder.Encode(elem): the values of the fields, in order; it fails when
\* the record has no such field.
Encode(fields, row) ==
    IF \E i \in 1..Len(fields) : fields[i] \notin Fields
    THEN [err |-> TRUE, tok |-> BadToken]
    ELSE [err |-> FALSE, tok |-> Token([i \in 1..Len(fields) |-> row[fields[i]]])]

\* Decoder.Decode(token, dest): the values back, or an error for a token
\* that is malformed or whose arity differs from the fields'.
Decode(fields, tok) ==
    IF ~tok.valid \/ Len(tok.vals) # Len(fields)
    THEN [err |-> TRUE, result |-> <<>>]
    ELSE [err |-> FALSE, result |-> tok.vals]

isNil(v) == v = NULL

---------------------------------------------------------------------------
(* Paginator: validation, setup, cursor decoding.                          *)

RECURSIVE RulesValidate(_)
RulesValidate(rs) ==
    IF rs = <<>> THEN "nil"
    ELSE IF RuleValidate(Head(rs)) # "nil" THEN RuleValidate(Head(rs))
    ELSE RulesValidate(Tail(rs))

\* Paginator.validate.
validate(rs, lim, ord) ==
    IF Len(rs) = 0 THEN "ErrNoRule"
    ELSE IF lim <= 0 THEN "ErrInvalidLimit"
    ELSE IF OrderValidate(ord) # "nil" THEN OrderValidate(ord)
    ELSE RulesValidate(rs)

\* One turn of the loop of Paginator.setup, for a rule whose schema (if it
\* is needed) could be parsed.
SetupRule(r, ord) ==
    LET r1 == IF r.SQLRepr = <<>> THEN [r EXCEPT !.SQLRepr = <<DBName(r.Key)>>] ELSE r
        r2 == IF r1.NULLReplacement # NULL
              THEN [r1 EXCEPT !.SQLRepr = Append(@, "COALESCE")] ELSE r1
        r3 == IF r2.SQLType # ""
              THEN [r2 EXCEPT !.SQLRepr = Append(@, "CAST")] ELSE r2
    IN  IF r3.Order = "" THEN [r3 EXCEPT !.Order = ord] ELSE r3

\* The first rule whose SQLRepr is unset (0 when there is none): the turn
\* in which setup parses the schema.
FirstUnset(rs) ==
    IF \E i \in 1..Len(rs) : rs[i].SQLRepr = <<>>
    THEN CHOOSE i \in 1..Len(rs) :
            /\ rs[i].SQLRepr = <<>>
            /\ \A j \in 1..(i - 1) : rs[j].SQLRepr # <<>>
    ELSE 0

\* Paginator.setup: mutates the rules in place; when the schema cannot be
\* parsed it returns in the turn that needed it, the earlier turns done.
setup(rs, ord, schemaOk) ==
    LET k == FirstUnset(rs)
    IN  IF ~schemaOk /\ k # 0
        THEN [err |-> "ErrSchema",
              rules |-> [i \in 1..Len(rs) |-> IF i < k THEN SetupRule(rs[i], ord) ELSE rs[i]]]
        ELSE [err |-> "nil", rules |-> [i \in 1..Len(rs) |-> SetupRule(rs[i], ord)]]

\* Variant of isBackward with a slip: the precedence of After is dropped.
isBackwardNoPrecedence(c) == c.Before.set

\* Paginator.isForward.
isForward(c) == c.After.set

\* Paginator.isBackward.
isBackward(c) == ~isForward(c) /\ c.Before.set

\* Paginator.DecodeCursor.
DecodeCursor(c, rs) ==
    LET d == IF isForward(c) THEN Decode(getDecoderFields(rs), c.After.tok)
             ELSE Decode(getDecoderFields(rs), c.Before.tok)
    IN  IF ~isForward(c) /\ ~isBackward(c)
        THEN [err |-> "nil", result |-> <<>>, decoded |-> FALSE]
        ELSE IF d.err
        THEN [err |-> "ErrInvalidCursor", result |-> <<>>, decoded |-> TRUE]
        ELSE [err |-> "nil",
              result |-> [i \in 1..Len(d.result) |->
                            IF isNil(d.result[i]) THEN rs[i].NULLReplacement
                            ELSE d.result[i]],
              decoded |-> TRUE]

---------------------------------------------------------------------------
(* The query builder.  A built query is a record: limit, order (a list of  *)
(* expression and direction), where (the OR of its clauses, each the AND   *)
(* of its comparisons, one placeholder per comparison) and args (the       *)
(* values bound to the placeholders, in the order they appear).            *)

\* Paginator.BuildOrderSQL.
BuildOrderSQL(rs, c) ==
    [i \in 1..Len(rs) |->
        [expr |-> rs[i].SQLRepr,
         dir |-> IF isBackward(c) THEN Flip(rs[i].Order) ELSE rs[i].Order]]

\* Variant of Operator with a slip: the rule's order is not looked at.
OperatorIgnoresOrder(r, c) == IF isForward(c) THEN ">" ELSE "<"

\* The operator BuildCursorSQLQuery compares rule r with.
Operator(r, c) ==
    IF (isForward(c) /\ r.Order = ASC) \/ (isBackward(c) /\ r.Order = DESC)
    THEN ">" ELSE "<"

\* The loop of BuildCursorSQLQuery from turn i on; query is the text of the
\* equalities on the rules before i.
RECURSIVE BuildLoop(_, _, _, _)
BuildLoop(rs, c, i, query) ==
    IF i > Len(rs) THEN <<>>
    ELSE <<Append(query, [expr |-> rs[i].SQLRepr, op |-> Operator(rs[i], c)])>>
         \o BuildLoop(rs, c, i + 1, Append(query, [expr |-> rs[i].SQLRepr, op |-> "="]))

\* Paginator.BuildCursorSQLQuery.
BuildCursorSQLQuery(rs, c) == BuildLoop(rs, c, 1, <<>>)

\* Variant of BuildCursorSQLQueryArgs with a slip: every clause gets all fields.
BuildCursorSQLQueryArgsAll(fields) ==
    Flatten([i \in 1..Len(fields) |-> fields])

\* Paginator.BuildCursorSQLQueryArgs.
BuildCursorSQLQueryArgs(fields) ==
    Flatten([i \in 1..Len(fields) |-> SubSeq(fields, 1, i)])

\* Variant of AppendPagingQuery with a slip: the sentinel row is not asked for.
AppendPagingQueryNoSentinel(rs, c, lim, fields) ==
    [limit |-> lim,
     order |-> BuildOrderSQL(rs, c),
     where |-> IF Len(fields) > 0 THEN BuildCursorSQLQuery(rs, c) ELSE <<>>,
     args  |-> IF Len(fields) > 0 THEN BuildCursorSQLQueryArgs(fields) ELSE <<>>]

\* Paginator.AppendPagingQuery (and SqlPaginator.AppendPagingQuery, which
\* writes the same parts as one text with the arguments put in place).
AppendPagingQuery(rs, c, lim, fields) ==
    [limit |-> lim + 1,
     order |-> BuildOrderSQL(rs, c),
     where |-> IF Len(fields) > 0 THEN BuildCursorSQLQuery(rs, c) ELSE <<>>,
     args  |-> IF Len(fields) > 0 THEN BuildCursorSQLQueryArgs(fields) ELSE <<>>]

\* The query no operation built.
NoQuery == [limit |-> 0, order |-> <<>>, where |-> <<>>, args |-> <<>>]

---------------------------------------------------------------------------
(* The query engine (gorm's Find): the rows of the table that satisfy the  *)
(* predicate, in the order asked for, at most limit of them.  Key values   *)
(* of stored rows are never NULL, so COALESCE and CAST leave them as they  *)
(* are; a comparison with a NULL argument is not true.                     *)

Value(expr, row) == row[FieldOf(expr[1])]

Compare(x, op, y) ==
    IF y = NULL THEN FALSE
    ELSE IF op = "=" THEN x = y
    ELSE IF op = ">" THEN x > y
    ELSE x < y

\* The number of placeholders before clause j.
Offset(where, j) == SeqSum([m \in 1..(j - 1) |-> Len(where[m])])

Placeholders(where) == SeqSum([m \in 1..Len(where) |-> Len(where[m])])

Matches(q, row) ==
    \/ q.where = <<>>
    \/ \E j \in 1..Len(q.where) :
          \A k \in 1..Len(q.where[j]) :
              Compare(Value(q.where[j][k].expr, row), q.where[j][k].op,
                      q.args[Offset(q.where, j) + k])

\* x comes strictly before y under ORDER BY ord (from its i-th part on).
RECURSIVE OrderedBefore(_, _, _, _)
OrderedBefore(ord, i, x, y) ==
    IF i > Len(ord) THEN FALSE
    ELSE LET vx == Value(ord[i].expr, x)
             vy == Value(ord[i].expr, y)
         IN  IF vx = vy THEN OrderedBefore(ord, i + 1, x, y)
             ELSE IF ord[i].dir = DESC THEN vx > vy ELSE vx < vy

Min(a, b) == IF a < b THEN a ELSE b

\* The engine can run q: every expression is resolved and every
\* placeholder has its argument.
Runnable(q) ==
    /\ \A i \in 1..Len(q.order) : q.order[i].expr # <<>>
    /\ q.where # <<>> => Placeholders(q.where) = Len(q.args)

\* Every answer the engine may give: rows that tie under ORDER BY come in
\* any order.
Results(q, tbl) ==
    LET M == {r \in tbl : Matches(q, r)}
        n == Min(Cardinality(M), q.limit)
    IN  {s \in [1..n -> M] :
            /\ \A i, j \in 1..n : i < j => s[i] # s[j] /\ ~OrderedBefore(q.order, 1, s[j], s[i])
            /\ \A r \in M : (\A i \in 1..n : s[i] # r) =>
                                \A i \in 1..n : ~OrderedBefore(q.order, 1, r, s[i])}

---------------------------------------------------------------------------
(* Paginator: the steps of one page request.                               *)

\* Variant of EncodeCursor with a slip: Before follows the rule of After.
EncodeCursorSymmetric(rs, c, elems, hasMore, encOk) ==
    LET enc(row) == Encode(getEncoderFields(rs), row)
        needAfter  == isBackward(c) \/ hasMore
        needBefore == isForward(c) \/ hasMore
        a == enc(elems[Len(elems)])
        b == enc(elems[1])
    IN  IF (needAfter /\ (a.err \/ ~encOk)) \/ (needBefore /\ (b.err \/ ~encOk))
        THEN [err |-> "ErrEncode", c |-> NoCursor]
        ELSE [err |-> "nil",
              c |-> [After  |-> IF needAfter THEN Ptr(a.tok) ELSE NilPtr,
                     Before |-> IF needBefore THEN Ptr(b.tok) ELSE NilPtr]]

\* Paginator.EncodeCursor; encOk says whether the encoder can encode.
EncodeCursor(rs, c, elems, hasMore, encOk) ==
    LET enc(row) == Encode(getEncoderFields(rs), row)
        needAfter  == isBackward(c) \/ hasMore
        needBefore == isForward(c) \/ (hasMore /\ isBackward(c))
        a == enc(elems[Len(elems)])
        b == enc(elems[1])
    IN  IF needAfter /\ (a.err \/ ~encOk) THEN [err |-> "ErrEncode", c |-> NoCursor]
        ELSE IF needBefore /\ (b.err \/ ~encOk) THEN [err |-> "ErrEncode", c |-> NoCursor]
        ELSE [err |-> "nil",
              c |-> [After  |-> IF needAfter THEN Ptr(a.tok) ELSE NilPtr,
                     Before |-> IF needBefore THEN Ptr(b.tok) ELSE NilPtr]]

\* Variant of Trim with a slip: the row is dropped after the reversal.
TrimAfterReverse(c, lim, elems) ==
    LET hasMore == Len(elems) > lim
        r == IF isBackward(c) THEN Reverse(elems) ELSE elems
    IN  [hasMore |-> hasMore,
         elems |-> IF hasMore THEN SubSeq(r, 1, Len(r) - 1) ELSE r]

\* Paginate and GetCursor on a non-empty dest: detect the sentinel row,
\* drop it, reverse what is left when paging backward.
Trim(c, lim, elems) ==
    LET hasMore == Len(elems) > lim
        cut == IF hasMore THEN SubSeq(elems, 1, Len(elems) - 1) ELSE elems
    IN  [hasMore |-> hasMore,
         elems |-> IF isBackward(c) THEN Reverse(cut) ELSE cut]

\* The body Paginate and GetCursor share, from the rows the engine wrote
\* to dest on: what is left in dest, hasMore, the outgoing cursor.  An
\* index into a dest that the cut left empty panics.
Finish(rs, c, lim, elems, encOk) ==
    IF Len(elems) = 0
    THEN [err |-> "nil", dest |-> elems, hasMore |-> FALSE, c |-> NoCursor, encoded |-> FALSE]
    ELSE LET t == Trim(c, lim, elems)
             e == EncodeCursor(rs, c, t.elems, t.hasMore, encOk)
         IN  IF Len(t.elems) = 0
             THEN [err |-> "panic", dest |-> t.elems, hasMore |-> t.hasMore,
                   c |-> NoCursor, encoded |-> TRUE]
             ELSE [err |-> e.err, dest |-> t.elems, hasMore |-> t.hasMore,
                   c |-> e.c, encoded |-> TRUE]

\* What an operation leaves when it returns before doing anything.
Outcome(op, rs) ==
    [op |-> op, err |-> "nil", resErr |-> "nil", rulesBefore |-> rs,
     decoded |-> FALSE, fields |-> <<>>, built |-> FALSE, query |-> NoQuery,
     executed |-> FALSE, encoded |-> FALSE,
     fetched |-> <<>>, dest |-> <<>>, hasMore |-> FALSE, c |-> NoCursor]

\* The steps Paginate and AppendPaginationQuery share: validate, setup,
\* DecodeCursor, AppendPagingQuery.  rules is what setup left in p.rules.
Prepare(op, c, rs, lim, ord, schemaOk) ==
    LET v == validate(rs, lim, ord)
        s == setup(rs, ord, schemaOk)
        d == DecodeCursor(c, s.rules)
        o == Outcome(op, rs)
    IN  IF v # "nil" THEN [rules |-> rs, out |-> [o EXCEPT !.err = v]]
        ELSE IF s.err # "nil" THEN [rules |-> s.rules, out |-> [o EXCEPT !.err = s.err]]
        ELSE IF d.err # "nil"
        THEN [rules |-> s.rules, out |-> [o EXCEPT !.err = d.err, !.decoded = d.decoded]]
        ELSE [rules |-> s.rules,
              out |-> [o EXCEPT !.decoded = d.decoded, !.fields = d.result, !.built = TRUE,
                                !.query = AppendPagingQuery(s.rules, c, lim, d.result)]]

\* Variant of Executed with a slip: the engine's error is not looked at.
ExecutedIgnoresError(pre, c, lim, execOk, fetched, encOk) ==
    LET f == Finish(pre.rules, c, lim, fetched, encOk)
    IN  [pre.out EXCEPT !.executed = TRUE, !.fetched = fetched, !.dest = f.dest,
                        !.hasMore = f.hasMore, !.c = f.c, !.err = f.err,
                        !.encoded = f.encoded,
                        !.resErr = IF execOk THEN "nil" ELSE "ErrExec"]

\* Paginator.Paginate from Find on, for the answer the engine gives
\* (execOk: whether the engine could run the query).
Executed(pre, c, lim, execOk, fetched, encOk) ==
    IF ~execOk \/ ~Runnable(pre.out.query)
    THEN [pre.out EXCEPT !.executed = TRUE, !.resErr = "ErrExec"]
    ELSE LET f == Finish(pre.rules, c, lim, fetched, encOk)
         IN  [pre.out EXCEPT !.executed = TRUE, !.fetched = fetched, !.dest = f.dest,
                             !.hasMore = f.hasMore, !.c = f.c, !.err = f.err,
                             !.encoded = f.encoded]

---------------------------------------------------------------------------
(* The inputs the operations are tried with.                               *)

Orders == {"", ASC, DESC}

\* Rule{Key: key}, every other field zero.
KeyRule(key) ==
    [Key |-> key, SQLRepr |-> <<>>, Order |-> "", NULLReplacement |-> NULL, SQLType |-> ""]

\* The rules a caller may give for one key: its own order or none, with or
\* without a NULL replacement and an SQL type.
RuleChoices(key) ==
    {[KeyRule(key) EXCEPT !.Order = o, !.NULLReplacement = n, !.SQLType = t] :
        o \in {"", ASC}, n \in {NULL, 0}, t \in {"", "INT"}}

\* Rule sets of the configuration runs: none, one rule on a field the
\* record has, one on a field it does not have.
ConfigRuleSets ==
    {<<>>, <<KeyRule("zz")>>} \cup {<<r>> : r \in RuleChoices("a")}

ConfigLimits == {0, 1}

ConfigOrders == {"", DESC}

\* Tokens a client may send in the configuration runs: undecodable, of no
\* value, of one value, of one NULL.
ConfigTokens == {BadToken, Token(<<>>), Token(<<1>>), Token(<<NULL>>)}

\* Rule sets of the paging runs: every sequence of distinct keys, each
\* rule ascending or inheriting the paginator's order.
PageRuleSets ==
    {<<[KeyRule(k) EXCEPT !.Order = o]>> : k \in Fields, o \in {"", ASC}}
    \cup {rs \in {<<[KeyRule(k1) EXCEPT !.Order = o1], [KeyRule(k2) EXCEPT !.Order = o2]>> :
                    k1 \in Fields, k2 \in Fields, o1 \in {"", ASC}, o2 \in {"", ASC}} :
            rs[1].Key # rs[2].Key}

\* Rule sets of the query builder runs: one to three resolved rules, each
\* ascending, descending or with no order.
BuildRule(key, expr, o) == [KeyRule(key) EXCEPT !.SQLRepr = <<expr>>, !.Order = o]

BuildRuleSets ==
    {<<BuildRule("a", "t.col_a", o1)>> : o1 \in Orders}
    \cup {<<BuildRule("a", "t.col_a", o1), BuildRule("b", "t.col_b", o2)>> :
            o1 \in Orders, o2 \in Orders}
    \cup {<<BuildRule("a", "t.col_a", o1), BuildRule("b", "t.col_b", o2),
             BuildRule("c", "t.col_c", o3)>> : o1 \in Orders, o2 \in Orders, o3 \in Orders}

BuildVals == {1, 2, 3}

\* The token of row r under rules rs.
RowToken(rs, r) == Token([i \in 1..Len(rs) |-> r[rs[i].Key]])

\* What can go wrong outside the paginator during one call.
Faults == {"none", "schema", "exec", "encode"}

---------------------------------------------------------------------------
(* The state machine.                                                      *)

NotSet == [set |-> FALSE, rules |-> <<>>]

\* No page request has returned since the last setter.
Idle(rs) == Outcome("none", rs)

Succeeded(out) == out.err = "nil" /\ out.resErr = "nil"

\* setup leaves every SQLRepr within the bound.
SetupFits == \A i \in 1..Len(rules) : Len(SetupRule(rules[i], order).SQLRepr) <= MaxReprLen

\* New(): the zero Paginator, over a table of three rows.
Init ==
    /\ cursor = NoCursor
    /\ rules = <<>>
    /\ limit = 0
    /\ order = ""
    /\ firstRules = NotSet
    /\ last = Idle(<<>>)
    /\ table = {r \in Rows : r.a = 1 \/ r.b = 1}

\* New(opts...) with a valid configuration, over any table.
InitPage ==
    /\ cursor = NoCursor
    /\ rules \in PageRuleSets
    /\ limit \in 1..MaxLimit
    /\ order = DESC
    /\ firstRules = NotSet
    /\ last = Idle(rules)
    /\ table \in Tables

\* A configured paginator with any cursors, its rules resolved, where the
\* query builder is tried on its own.
InitBuild ==
    /\ cursor \in [After : {NilPtr, Ptr(Token(<<>>))}, Before : {NilPtr, Ptr(Token(<<>>))}]
    /\ rules \in BuildRuleSets
    /\ limit = 1
    /\ order = DESC
    /\ firstRules = NotSet
    /\ last = Idle(rules)
    /\ table = {}

SetRules(rs) ==
    /\ rules' = rs
    /\ firstRules' = NotSet
    /\ last' = Idle(rs)
    /\ UNCHANGED <<cursor, limit, order, table>>

SetKeys(keys) ==
    /\ rules' = [i \in 1..Len(keys) |-> KeyRule(keys[i])]
    /\ firstRules' = NotSet
    /\ last' = Idle(rules')
    /\ UNCHANGED <<cursor, limit, order, table>>

SetLimit(l) ==
    /\ limit' = l
    /\ firstRules' = NotSet
    /\ last' = Idle(rules)
    /\ UNCHANGED <<cursor, rules, order, table>>

SetOrder(o) ==
    /\ order' = o
    /\ firstRules' = NotSet
    /\ last' = Idle(rules)
    /\ UNCHANGED <<cursor, rules, limit, table>>

SetAfterCursor(tok) ==
    /\ cursor' = [cursor EXCEPT !.After = Ptr(tok)]
    /\ last' = Idle(rules)
    /\ UNCHANGED <<rules, limit, order, table, firstRules>>

SetBeforeCursor(tok) ==
    /\ cursor' = [cursor EXCEPT !.Before = Ptr(tok)]
    /\ last' = Idle(rules)
    /\ UNCHANGED <<rules, limit, order, table, firstRules>>

\* The history of the first successful setup.
Remember(out, rs) ==
    IF ~firstRules.set /\ Succeeded(out) THEN [set |-> TRUE, rules |-> rs] ELSE firstRules

Paginate ==
    /\ SetupFits
    /\ \E fault \in Faults :
         LET pre == Prepare("Paginate", cursor, rules, limit, order, fault # "schema")
         IN  /\ rules' = pre.rules
             /\ IF ~pre.out.built
                THEN last' = pre.out
                ELSE IF ~Runnable(pre.out.query)
                THEN last' = Executed(pre, cursor, limit, FALSE, <<>>, TRUE)
                ELSE \E fetched \in Results(pre.out.query, table) :
                        last' = Executed(pre, cursor, limit, fault # "exec", fetched,
                                         fault # "encode")
             /\ firstRules' = Remember(last', pre.rules)
    /\ UNCHANGED <<cursor, limit, order, table>>

AppendPaginationQuery ==
    /\ SetupFits
    /\ \E fault \in {"none", "schema"} :
         LET pre == Prepare("AppendPaginationQuery", cursor, rules, limit, order,
                            fault # "schema")
         IN  /\ rules' = pre.rules
             /\ last' = pre.out
             /\ firstRules' = Remember(last', pre.rules)
    /\ UNCHANGED <<cursor, limit, order, table>>

\* Paginator.GetCursor (and SqlPaginator.GetCursor), called with the dest
\* the caller filled by running the query just built.
GetCursor ==
    /\ last.built /\ ~last.executed /\ Runnable(last.query)
    /\ \E dest \in Results(last.query, table), fault \in {"none", "encode"} :
         LET f == Finish(rules, cursor, limit, dest, fault # "encode")
         IN  last' = [Outcome("GetCursor", rules) EXCEPT
                         !.fetched = dest, !.dest = f.dest, !.hasMore = f.hasMore,
                         !.c = f.c, !.err = f.err, !.encoded = f.encoded]
    /\ UNCHANGED <<cursor, rules, limit, order, table, firstRules>>

\* SqlPaginator.AppendPaginationQuery: DecodeCursor, then AppendPagingQuery.
SqlBuild(op) ==
    LET d == DecodeCursor(cursor, rules)
        o == Outcome(op, rules)
    IN  IF d.err # "nil" THEN [o EXCEPT !.err = d.err, !.decoded = d.decoded]
        ELSE [o EXCEPT !.decoded = d.decoded, !.fields = d.result, !.built = TRUE,
                       !.query = AppendPagingQuery(rules, cursor, limit, d.result)]

SqlAppendPaginationQuery ==
    /\ last' = SqlBuild("SqlAppendPaginationQuery")
    /\ UNCHANGED <<cursor, rules, limit, order, table, firstRules>>

GetPaginationQuery ==
    /\ last' = SqlBuild("GetPaginationQuery")
    /\ UNCHANGED <<cursor, rules, limit, order, table, firstRules>>

Next ==
    \/ \E rs \in ConfigRuleSets : SetRules(rs)
    \/ \E keys \in {<<"a">>, <<"a", "b">>} : SetKeys(keys)
    \/ \E l \in ConfigLimits : SetLimit(l)
    \/ \E o \in ConfigOrders : SetOrder(o)
    \/ \E tok \in ConfigTokens : SetAfterCursor(tok)
    \/ \E tok \in ConfigTokens : SetBeforeCursor(tok)
    \/ Paginate
    \/ AppendPaginationQuery
    \/ GetCursor
    \/ SqlAppendPaginationQuery
    \/ GetPaginationQuery

Spec == Init /\ [][Next]_vars

\* Paginator.AppendPagingQuery (and SqlPaginator.AppendPagingQuery) called
\* on its own with one value per rule.
AppendPagingQueryCall ==
    /\ \E fields \in [1..Len(rules) -> BuildVals] :
         last' = [Outcome("AppendPagingQuery", rules) EXCEPT
                     !.fields = fields, !.built = TRUE,
                     !.query = AppendPagingQuery(rules, cursor, limit, fields)]
    /\ UNCHANGED <<cursor, rules, limit, order, table, firstRules>>

NextBuild == AppendPagingQueryCall

SpecBuild == InitBuild /\ [][NextBuild]_vars

NextPage ==
    \/ \E r \in Rows : SetAfterCursor(RowToken(rules, r))
    \/ \E r \in Rows : SetBeforeCursor(RowToken(rules, r))
    \/ Paginate

SpecPage == InitPage /\ [][NextPage]_vars

---------------------------------------------------------------------------
(* Properties of the configuration runs (Spec).                            *)

CallOps == {"Paginate", "AppendPaginationQuery"}

SqlOps == {"SqlAppendPaginationQuery", "GetPaginationQuery"}

\* The error the configuration must be refused with ("nil": none), in the
\* precedence NoRule, InvalidLimit, InvalidOrder.
Refusal(rs, lim, ord) ==
    IF Len(rs) = 0 THEN "ErrNoRule"
    ELSE IF lim <= 0 THEN "ErrInvalidLimit"
    ELSE IF ord \notin {ASC, DESC} THEN "ErrInvalidOrder"
    ELSE "nil"

\* The token DecodeCursor has to decode: After's when After is set.
ActiveToken == IF cursor.After.set THEN cursor.After.tok ELSE cursor.Before.tok

\* The values of the active token with the NULLs replaced.
ActiveValues ==
    [i \in 1..Len(ActiveToken.vals) |->
        IF ActiveToken.vals[i] = NULL THEN rules[i].NULLReplacement
        ELSE ActiveToken.vals[i]]

\* C6: the direction is decided by which cursors are set, and only by
\* that: forward iff After is set (then After is the token decoded, also
\* when Before is set too), backward iff only Before is set, never both;
\* with no cursor set a built query has no predicate and no argument, its
\* ORDER BY lists the rules in their own directions and its LIMIT is
\* limit + 1.
C6_DirectionByCursorPresence ==
    /\ isForward(cursor) <=> cursor.After.set
    /\ isBackward(cursor) <=> (cursor.Before.set /\ ~cursor.After.set)
    /\ ~(isForward(cursor) /\ isBackward(cursor))
    /\ (last.built /\ cursor.After.set) => last.fields = ActiveValues
    /\ (last.built /\ cursor.After.set) =>
          \A i \in 1..Len(rules) : last.query.order[i].dir = rules[i].Order
    /\ (last.built /\ ~cursor.After.set /\ cursor.Before.set) =>
          /\ last.fields = ActiveValues
          /\ \A i \in 1..Len(rules) : last.query.order[i].dir = Flip(rules[i].Order)
    /\ (last.built /\ ~cursor.After.set /\ ~cursor.Before.set) =>
          /\ ~last.decoded
          /\ last.query.where = <<>>
          /\ last.query.args = <<>>
          /\ last.query.limit = limit + 1
          /\ Len(last.query.order) = Len(rules)
          /\ \A i \in 1..Len(rules) :
                last.query.order[i] = [expr |-> rules[i].SQLRepr, dir |-> rules[i].Order]

\* C6, its case: both cursors are set to different tokens and a query with
\* a predicate was built.
C6_Witness ==
    /\ cursor.After.set /\ cursor.Before.set
    /\ cursor.After.tok # cursor.Before.tok
    /\ Decode(getDecoderFields(rules), cursor.Before.tok).err = FALSE
    /\ last.built /\ last.query.where # <<>>

\* C7: on every entry point that produces a query, a configuration that
\* must be refused is refused with its error, in the precedence NoRule,
\* InvalidLimit, InvalidOrder, and then no query is built or run, no cursor
\* is decoded and the rules are left as they were.
C7_ValidationFailFast ==
    (last.op \in CallOps \cup SqlOps /\ Refusal(last.rulesBefore, limit, order) # "nil") =>
        /\ last.err = Refusal(last.rulesBefore, limit, order)
        /\ ~last.built /\ ~last.executed /\ ~last.decoded
        /\ rules = last.rulesBefore

\* C7 for the entry points of Paginator alone (what the code does keep).
C7_PaginatorFailFast ==
    (last.op \in CallOps /\ Refusal(last.rulesBefore, limit, order) # "nil") =>
        /\ last.err = Refusal(last.rulesBefore, limit, order)
        /\ ~last.built /\ ~last.executed /\ ~last.decoded
        /\ rules = last.rulesBefore

\* C8: after the first successful call, every later successful call in
\* which only the cursor changed leaves each rule's SQLRepr and Order as
\* the first call left them.
C8_SetupIdempotent ==
    (last.op \in CallOps /\ Succeeded(last) /\ firstRules.set) =>
        /\ Len(rules) = Len(firstRules.rules)
        /\ \A i \in 1..Len(rules) :
              /\ rules[i].SQLRepr = firstRules.rules[i].SQLRepr
              /\ rules[i].Order = firstRules.rules[i].Order

\* The failed step of a Paginate call decides what was done and returned:
\* nothing after the step, and an empty outgoing cursor.
C9_NoLaterStep ==
    /\ Refusal(last.rulesBefore, limit, order) # "nil" =>
          /\ last.err = Refusal(last.rulesBefore, limit, order)
          /\ ~last.decoded /\ ~last.built /\ ~last.executed /\ ~last.encoded
          /\ rules = last.rulesBefore
    /\ last.err = "ErrSchema" =>
          ~last.decoded /\ ~last.built /\ ~last.executed /\ ~last.encoded
    /\ (/\ validate(last.rulesBefore, limit, order) = "nil"
        /\ last.err # "ErrSchema"
        /\ cursor.After.set \/ cursor.Before.set
        /\ Decode(getDecoderFields(rules), ActiveToken).err) =>
          /\ last.err = "ErrInvalidCursor"
          /\ last.decoded /\ ~last.built /\ ~last.executed /\ ~last.encoded
    /\ last.resErr # "nil" =>
          /\ last.executed /\ ~last.encoded
          /\ last.dest = <<>> /\ ~last.hasMore
    /\ last.err # "nil" => last.c = NoCursor
    /\ last.resErr # "nil" => last.c = NoCursor

\* C9 as claimed: a Paginate call that fails at any step does nothing after
\* it, returns an empty cursor, and returns that step's error as its
\* (non-nil) error value.
C9_AllOrNothing ==
    last.op = "Paginate" =>
        /\ C9_NoLaterStep
        /\ last.resErr # "nil" => last.err # "nil"

\* C9 as the code has it: the same, but a failed execution is reported in
\* the returned result's Error alone, the error value is nil.
C9_AllOrNothingExecInResult ==
    last.op = "Paginate" =>
        /\ C9_NoLaterStep
        /\ last.resErr # "nil" => last.err = "nil"
        /\ last.err \in {"nil", "ErrNoRule", "ErrInvalidLimit", "ErrInvalidOrder",
                         "ErrInvalidRule", "ErrSchema", "ErrInvalidCursor", "ErrEncode"}

\* C9, its case: the engine failed to run the query of a Paginate call.
C9_Witness ==
    last.op = "Paginate" /\ last.built /\ last.executed /\ last.resErr = "ErrExec"

\* C10: a cursor once set stays set, so an instance that is forward stays
\* forward and never turns backward, and a query built while a cursor is
\* set always carries a predicate.
C10_CursorSticky ==
    [][/\ cursor.After.set => cursor'.After.set
       /\ cursor.Before.set => cursor'.Before.set
       /\ isForward(cursor) => (isForward(cursor') /\ ~isBackward(cursor'))
       /\ (last'.built /\ (cursor'.After.set \/ cursor'.Before.set)) =>
             last'.query.where # <<>>]_vars

\* C10 without the entry points that skip validation.
C10_PaginatorSticky ==
    [][/\ cursor.After.set => cursor'.After.set
       /\ cursor.Before.set => cursor'.Before.set
       /\ isForward(cursor) => (isForward(cursor') /\ ~isBackward(cursor'))
       /\ (last'.built /\ last'.op \in CallOps
             /\ (cursor'.After.set \/ cursor'.Before.set)) =>
             last'.query.where # <<>>]_vars

\* C5: every built query asks for limit + 1 rows; hasMore is true iff the
\* engine returned more than limit rows, and then exactly the last row is
\* dropped, so dest never holds more than limit rows; when the engine
\* returns limit rows or fewer, hasMore is false and no token for going on
\* in the direction of travel is emitted.
C5_HasMore ==
    /\ last.built => last.query.limit = limit + 1
    /\ (last.op \in {"Paginate", "GetCursor"} /\ last.resErr = "nil"
          /\ (last.op = "Paginate" => last.executed)) =>
          LET f == last.fetched
          IN  /\ last.hasMore <=> Len(f) > limit
              /\ last.hasMore =>
                    /\ Len(last.dest) = Len(f) - 1
                    /\ \A i \in 1..Len(last.dest) :
                          \E j \in 1..(Len(f) - 1) : last.dest[i] = f[j]
              /\ ~last.hasMore =>
                    /\ Len(last.dest) = Len(f)
                    /\ \A j \in 1..Len(f) : \E i \in 1..Len(last.dest) : last.dest[i] = f[j]
              /\ Len(last.dest) <= limit
              /\ Len(f) <= limit =>
                    /\ ~(cursor.Before.set /\ ~cursor.After.set) => ~last.c.After.set
                    /\ (cursor.Before.set /\ ~cursor.After.set) => ~last.c.Before.set

\* C5, its case: the engine returned limit + 1 rows to Paginate and the
\* sentinel was dropped.
C5_Witness ==
    /\ last.op = "Paginate" /\ Succeeded(last)
    /\ Len(last.fetched) = limit + 1 /\ last.hasMore /\ Len(last.dest) = limit

---------------------------------------------------------------------------
(* Properties of the query builder runs (SpecBuild).                       *)

\* The number of placeholders of the clauses before clause i.
Tri(i) == (i * (i - 1)) \div 2

\* C1: for n >= 1 rules and n values v, the predicate has n clauses joined
\* by OR; clause i is the equality on the rules before i and a comparison
\* on rule i, which is > exactly when (forward and rule i ASC) or (backward
\* and rule i DESC) and < otherwise; the arguments are v[1..1], v[1..2],
\* ..., v[1..n] in that order, so every placeholder is bound to the value
\* of the rule it is compared against.
C1_SeekPredicate ==
    last.op = "AppendPagingQuery" =>
        LET n == Len(rules)
            v == last.fields
            w == last.query.where
            a == last.query.args
            fwd == cursor.After.set
            bwd == cursor.Before.set /\ ~cursor.After.set
        IN  /\ Len(w) = n
            /\ Len(a) = Tri(n + 1)
            /\ \A i \in 1..n :
                  /\ Len(w[i]) = i
                  /\ \A k \in 1..(i - 1) :
                        w[i][k] = [expr |-> rules[k].SQLRepr, op |-> "="]
                  /\ w[i][i].expr = rules[i].SQLRepr
                  /\ w[i][i].op \in {">", "<"}
                  /\ w[i][i].op = ">" <=>
                        ((fwd /\ rules[i].Order = ASC) \/ (bwd /\ rules[i].Order = DESC))
                  /\ \A k \in 1..i : a[Tri(i) + k] = v[k]

\* C1, its case: three ASC rules, forward, values (1, 2, 3), arguments
\* [1, 1, 2, 1, 2, 3].
C1_Witness ==
    /\ last.op = "AppendPagingQuery"
    /\ Len(rules) = 3 /\ \A i \in 1..3 : rules[i].Order = ASC
    /\ cursor.After.set
    /\ last.fields = <<1, 2, 3>>
    /\ last.query.args = <<1, 1, 2, 1, 2, 3>>
    /\ \A i \in 1..3 : last.query.where[i][i].op = ">"

---------------------------------------------------------------------------
(* Properties of the paging runs (SpecPage).                               *)

\* The key values of row r, in rule order.
KeyOf(rs, r) == [i \in 1..Len(rs) |-> r[rs[i].Key]]

\* Key tuple x comes strictly before key tuple y in the order the rules
\* define (from rule i on): the first rule they differ in decides, by its
\* direction.
RECURSIVE RuleBefore(_, _, _, _)
RuleBefore(rs, i, x, y) ==
    IF i > Len(rs) THEN FALSE
    ELSE IF x[i] = y[i] THEN RuleBefore(rs, i + 1, x, y)
    ELSE IF rs[i].Order = ASC THEN x[i] < y[i] ELSE x[i] > y[i]

DistinctKeys(rs, tbl) == \A x, y \in tbl : x # y => KeyOf(rs, x) # KeyOf(rs, y)

\* The rows of S in rule order.
SortedRows(rs, S) ==
    CHOOSE s \in [1..Cardinality(S) -> S] :
        \A i, j \in 1..Cardinality(S) :
            i < j => RuleBefore(rs, 1, KeyOf(rs, s[i]), KeyOf(rs, s[j]))

\* The page a fresh caller gets for cursor c when nothing goes wrong.
PageFor(c) ==
    LET pre == Prepare("Paginate", c, rules, limit, order, TRUE)
        fetched == CHOOSE f \in Results(pre.out.query, table) : TRUE
    IN  Executed(pre, c, limit, TRUE, fetched, TRUE)

\* The rows seen by following the After tokens from cursor c on.
RECURSIVE Walk(_, _)
Walk(c, fuel) ==
    IF fuel = 0 THEN <<>>
    ELSE LET page == PageFor(c)
         IN  page.dest \o
             (IF page.c.After.set
              THEN Walk([After |-> page.c.After, Before |-> NilPtr], fuel - 1)
              ELSE <<>>)

PagedOk == last.op = "Paginate" /\ last.executed /\ Succeeded(last)

\* C2: for a non-empty page whose tokens could be encoded, After is
\* emitted iff the direction is backward or hasMore, and encodes the last
\* row of the page; Before is emitted iff the direction is forward, or
\* backward with hasMore, and encodes the first row; so a first page never
\* gets a Before token; an empty result gets no token.
C2_EncodeRule ==
    PagedOk =>
        LET fwd == cursor.After.set
            bwd == cursor.Before.set /\ ~cursor.After.set
            n == Len(last.dest)
        IN  IF Len(last.fetched) = 0 THEN last.c = NoCursor
            ELSE /\ n > 0
                 /\ last.c.After.set <=> (bwd \/ last.hasMore)
                 /\ last.c.After.set => last.c.After.tok = RowToken(rules, last.dest[n])
                 /\ last.c.Before.set <=> (fwd \/ (bwd /\ last.hasMore))
                 /\ last.c.Before.set => last.c.Before.tok = RowToken(rules, last.dest[1])
                 /\ (~fwd /\ ~bwd) => ~last.c.Before.set

\* C2, its case: a first page with more rows behind it: After, no Before.
C2_Witness ==
    /\ PagedOk /\ ~cursor.After.set /\ ~cursor.Before.set
    /\ last.hasMore /\ Len(last.dest) = 2
    /\ last.c.After.set /\ ~last.c.Before.set

\* C3: with pairwise distinct key tuples, a forward Paginate (no cursor, or
\* After = the token of a row r) returns the first min(limit, remaining)
\* rows that come strictly after r in rule order, in rule order; hasMore
\* is true exactly when rows remain beyond the page, and then After is
\* emitted and encodes the last row returned; following the After tokens
\* from the first page visits every row exactly once, in rule order.
C3_ForwardPaging ==
    (PagedOk /\ ~(cursor.Before.set /\ ~cursor.After.set) /\ DistinctKeys(rules, table)) =>
        LET S == IF cursor.After.set
                 THEN {r \in table : RuleBefore(rules, 1, cursor.After.tok.vals, KeyOf(rules, r))}
                 ELSE table
            s == SortedRows(rules, S)
            n == Min(limit, Len(s))
        IN  /\ last.dest = SubSeq(s, 1, n)
            /\ last.hasMore <=> Len(s) > limit
            /\ last.hasMore => last.c.After.set
            /\ last.c.After.set => last.c.After.tok = RowToken(rules, last.dest[n])
            /\ ~cursor.After.set =>
                  Walk(NoCursor, Cardinality(table) + 1) = SortedRows(rules, table)

\* C3, its case: a second page reached by an After token, with a tie on
\* the first key broken by the second, and more rows behind it.
C3_Witness ==
    /\ PagedOk /\ cursor.After.set /\ DistinctKeys(rules, table)
    /\ Len(rules) = 2 /\ rules[1].Order # rules[2].Order
    /\ Len(last.dest) = 1 /\ last.hasMore
    /\ last.dest[1][rules[1].Key] = cursor.After.tok.vals[1]

\* C4: with pairwise distinct key tuples, Paginate with only Before = the
\* token of a row r fetches with every rule's direction flipped, drops the
\* sentinel (the last row fetched, the farthest from r) before reversing,
\* and returns the min(limit, preceding) rows that immediately precede r,
\* in rule order.
C4_BackwardPaging ==
    (PagedOk /\ cursor.Before.set /\ ~cursor.After.set /\ DistinctKeys(rules, table)) =>
        LET v == cursor.Before.tok.vals
            P == {r \in table : RuleBefore(rules, 1, KeyOf(rules, r), v)}
            s == SortedRows(rules, P)
            n == Min(limit, Len(s))
            f == last.fetched
        IN  /\ last.dest = SubSeq(s, Len(s) - n + 1, Len(s))
            /\ \A i \in 1..Len(rules) : last.query.order[i].dir = Flip(rules[i].Order)
            /\ \A i, j \in 1..Len(f) :
                  i < j => RuleBefore(rules, 1, KeyOf(rules, f[j]), KeyOf(rules, f[i]))
            /\ last.hasMore <=> Len(s) > limit
            /\ last.hasMore =>
                  /\ last.dest = Reverse(SubSeq(f, 1, Len(f) - 1))
                  /\ \A i \in 1..n :
                        RuleBefore(rules, 1, KeyOf(rules, f[Len(f)]), KeyOf(rules, last.dest[i]))
            /\ ~last.hasMore => last.dest = Reverse(f)

\* C4, its case: three rows precede r, two are returned in rule order and
\* the farthest was the sentinel.
C4_Witness ==
    /\ PagedOk /\ cursor.Before.set /\ ~cursor.After.set /\ DistinctKeys(rules, table)
    /\ Len(rules) = 2
    /\ last.hasMore /\ Len(last.dest) = 2 /\ Len(last.fetched) = 3
    /\ RuleBefore(rules, 1, KeyOf(rules, last.dest[1]), KeyOf(rules, last.dest[2]))

===========================================================================
